---- MODULE Spec2Model ----
(***************************************************************************)
(* Model of jax_cfd/base/boundaries.py: constant boundary conditions on a  *)
(* staggered grid (pad / trim / shift of a GridArray), the construction    *)
(* helpers, has_all_periodic_boundary_conditions and                       *)
(* get_pressure_bc_from_velocity.                                          *)
(*                                                                         *)
(* Conventions.  Axes and tuple positions are 1-based (Python axis k is    *)
(* k+1 here; the lower side is position 1, the upper side position 2).     *)
(* Offsets are stored in quarters of a cell: One = 1.0, Half = 0.5, so     *)
(* 0.25 is 1.  Array data are integers (floating-point rounding is not     *)
(* modelled); an array is a function from index tuples to values together  *)
(* with its shape.                                                         *)
(***************************************************************************)
EXTENDS Integers, Sequences, FiniteSets, TLC

VARIABLES bc, u, pc, call, padded, tcall, out, arg, cbc, ret

vars == <<bc, u, pc, call, padded, tcall, out, arg, cbc, ret>>

(* ------------------------------ bounds --------------------------------- *)
MaxLen == 2      \* longest axis of an input array
MaxVal == 1      \* input data are a + (cell code), a in 0..MaxVal
MaxWidth == 1    \* pad / trim / shift widths are in -MaxWidth..MaxWidth
MaxNdim == 2     \* constructors take 0..MaxNdim axes
MaxArrays == 2   \* has_all_periodic / pressure derivation take 0..MaxArrays fields

(* ---------------------------- BCType ----------------------------------- *)
PERIODIC == "periodic"
DIRICHLET == "dirichlet"
NEUMANN == "neumann"
\* a tag outside the BCType class, to reach the final else of the dispatch
UNKNOWN == "unknown"

BCTypes == {PERIODIC, DIRICHLET, NEUMANN}
Tags == BCTypes \cup {UNKNOWN}

(* offsets in quarters of a cell *)
One == 4
Half == 2

(* the grid every GridArray of the pad model refers to: 2-D, steps 1 and 2 *)
GridStep == <<1, 2>>
GridNdim == Len(GridStep)
Axes == 1..GridNdim

(* --------------------------- array primitives -------------------------- *)
Indices(shape) ==
  {idx \in [1..Len(shape) -> 1..(MaxLen + MaxWidth)] :
     \A k \in 1..Len(shape) : idx[k] <= shape[k]}

\* GridArray(data, offset, grid); status "ok" marks a returned value
GridArray(data, shape, offset) ==
  [status |-> "ok", data |-> data, shape |-> shape, offset |-> offset]

\* an exception propagating out of the call: no value is returned
Raise(e) == [status |-> e, data |-> <<>>, shape |-> <<>>, offset |-> <<>>]

\* source position (1..n) that numpy's pad modes read for position p, which
\* lies outside 1..n on the padded part
WrapPos(p, n) == ((p - 1) % n) + 1
EdgePos(p, n) == IF p < 1 THEN 1 ELSE IF p > n THEN n ELSE p
SymmetricPos(p, n) ==
  LET q == (p - 1) % (2 * n) IN IF q < n THEN q + 1 ELSE 2 * n - q

PaddedShape(shape, full_padding) ==
  [k \in 1..Len(shape) |-> shape[k] + full_padding[k][1] + full_padding[k][2]]

\* jnp.pad(data, full_padding, mode=..., constant_values=...): the data only
jnp_pad(data, shape, full_padding, mode, constant_values) ==
  [idx \in Indices(PaddedShape(shape, full_padding)) |->
     LET p == [k \in 1..Len(shape) |-> idx[k] - full_padding[k][1]]
         outside == {k \in 1..Len(shape) : p[k] < 1 \/ p[k] > shape[k]}
         src(f(_, _)) == data[[k \in 1..Len(shape) |-> f(p[k], shape[k])]]
     IN  IF mode = "wrap" THEN src(WrapPos)
         ELSE IF mode = "edge" THEN src(EdgePos)
         ELSE IF mode = "symmetric" THEN src(SymmetricPos)
         ELSE \* "constant": axes are padded in order, the last one wins
              IF outside = {} THEN data[p]
              ELSE LET k == CHOOSE x \in outside : \A y \in outside : y <= x
                   IN  IF p[k] < 1 THEN constant_values[k][1]
                       ELSE constant_values[k][2]]

\* constant_values default of jnp.pad(mode='constant')
ZeroValues(ndim) == [k \in 1..ndim |-> <<0, 0>>]

\* lax.slice_in_dim(data, start, limit, axis): negative indices are counted
\* from the end; start > limit or limit > length is an error
slice_in_dim(f, start_index, limit_index, axis) ==
  LET len_axis == f.shape[axis]
      start == IF start_index < 0 THEN start_index + len_axis ELSE start_index
      limit == IF limit_index < 0 THEN limit_index + len_axis ELSE limit_index
      newshape == [f.shape EXCEPT ![axis] = limit - start]
  IN  IF start < 0 \/ limit < 0 \/ limit > len_axis \/ start > limit
      THEN Raise("SliceError")
      ELSE GridArray([idx \in Indices(newshape) |->
                        f.data[[idx EXCEPT ![axis] = @ + start]]],
                     newshape, f.offset)

(* ------------------- ConstantBoundaryConditions ------------------------ *)
\* __init__: the two sequences are stored as given
ConstantBoundaryConditions(types, values) ==
  [types |-> types, values |-> values]

Padding(width) == IF width < 0 THEN <<-width, 0>> ELSE <<0, width>>

\* mutant: the lower type is used whatever the sign of width
PadBcTypeAlwaysLower(self, width, axis) == self.types[axis][1]

PadBcType(self, width, axis) ==
  IF width < 0 THEN self.types[axis][1] ELSE self.types[axis][2]

FullPadding(ndim, width, axis) ==
  [k \in 1..ndim |-> IF k = axis THEN Padding(width) ELSE <<0, 0>>]

\* mutant: the offset is not moved by a lower-side pad
PadOffsetUnchanged(f, width, axis) == f.offset

PadOffset(f, width, axis) ==
  [f.offset EXCEPT ![axis] = @ - One * Padding(width)[1]]

\* np.isclose(u.offset[axis] % 1, 0.5) and np.isclose(u.offset[axis] % 1, 0);
\* offsets are exact multiples of a quarter here
IsCenter(f, axis) == (f.offset[axis] % One) = Half

\* mutant: every offset that is not a cell center passes for a cell edge
IsEdgeNotCenter(f, axis) == (f.offset[axis] % One) # Half

IsEdge(f, axis) == (f.offset[axis] % One) = 0

\* mutant: the factor 2 of the reflection is dropped on the ghost cells
DirichletCenterDataNoDouble(self, f, full_padding) ==
  LET c == jnp_pad(f.data, f.shape, full_padding, "constant", self.values)
      z == jnp_pad(f.data, f.shape, full_padding, "constant",
                   ZeroValues(Len(f.shape)))
      s == jnp_pad(f.data, f.shape, full_padding, "symmetric", self.values)
  IN  [idx \in DOMAIN c |-> c[idx] + z[idx] - s[idx]]

DirichletCenterData(self, f, full_padding) ==
  LET c == jnp_pad(f.data, f.shape, full_padding, "constant", self.values)
      s == jnp_pad(f.data, f.shape, full_padding, "symmetric", self.values)
  IN  [idx \in DOMAIN c |-> 2 * c[idx] - s[idx]]

\* mutant: constant_values is left out, the ghost cells are filled with 0
DirichletEdgeDataZero(self, f, full_padding) ==
  jnp_pad(f.data, f.shape, full_padding, "constant", ZeroValues(Len(f.shape)))

DirichletEdgeData(self, f, full_padding) ==
  jnp_pad(f.data, f.shape, full_padding, "constant", self.values)

\* mutant: the sign of the boundary-value term is flipped
NeumannDataPlus(self, f, full_padding, axis) ==
  LET e == jnp_pad(f.data, f.shape, full_padding, "edge", self.values)
      z == jnp_pad(f.data, f.shape, full_padding, "constant",
                   ZeroValues(Len(f.shape)))
      c == jnp_pad(f.data, f.shape, full_padding, "constant", self.values)
  IN  [idx \in DOMAIN e |-> e[idx] + GridStep[axis] * (c[idx] - z[idx])]

NeumannData(self, f, full_padding, axis) ==
  LET e == jnp_pad(f.data, f.shape, full_padding, "edge", self.values)
      z == jnp_pad(f.data, f.shape, full_padding, "constant",
                   ZeroValues(Len(f.shape)))
      c == jnp_pad(f.data, f.shape, full_padding, "constant", self.values)
  IN  [idx \in DOMAIN e |-> e[idx] + GridStep[axis] * (z[idx] - c[idx])]

pad(self, f, width, axis) ==
  LET bc_type == PadBcType(self, width, axis)
      full_padding == FullPadding(GridNdim, width, axis)
      offset == PadOffset(f, width, axis)
      shape == PaddedShape(f.shape, full_padding)
  IN  IF bc_type = PERIODIC
      THEN GridArray(jnp_pad(f.data, f.shape, full_padding, "wrap",
                             self.values), shape, offset)
      ELSE IF bc_type = DIRICHLET
      THEN IF IsCenter(f, axis)
           THEN GridArray(DirichletCenterData(self, f, full_padding),
                          shape, offset)
           ELSE IF IsEdge(f, axis)
           THEN GridArray(DirichletEdgeData(self, f, full_padding),
                          shape, offset)
           ELSE Raise("InvalidOffset")
      ELSE IF bc_type = NEUMANN
      THEN IF IsEdge(f, axis) \/ IsCenter(f, axis)
           THEN GridArray(NeumannData(self, f, full_padding, axis),
                          shape, offset)
           ELSE Raise("InvalidOffset")
      ELSE Raise("InvalidBoundaryType")

\* mutant: the offset is not moved back by a lower-side trim
TrimOffsetUnchanged(f, width, axis) == f.offset

TrimOffset(f, width, axis) ==
  [f.offset EXCEPT ![axis] = @ + One * Padding(width)[1]]

trim(self, f, width, axis) ==
  LET padding == Padding(width)
      limit_index == f.shape[axis] - padding[2]
      data == slice_in_dim(f, padding[1], limit_index, axis)
  IN  IF data.status # "ok" THEN data
      ELSE GridArray(data.data, data.shape, TrimOffset(f, width, axis))

\* an exception in _pad propagates out of shift
shift(self, f, offset, axis) ==
  LET p == pad(self, f, offset, axis)
  IN  IF p.status # "ok" THEN p ELSE trim(self, p, -offset, axis)

(* ------------------- pad / trim / shift as a state machine ------------- *)
\* The inputs: a boundary condition and a GridArray on the 2-D grid.  One
\* axis (the focus) takes every combination of lower / upper type tag,
\* offset and length; the other axis takes one of OtherAxisConfigs.
Offsets == {0, 1, Half, One + Half}

AxisConfigs ==
  [types : Tags \X Tags, offset : Offsets, len : 1..MaxLen]

OtherAxisConfigs ==
  { [types |-> <<PERIODIC, PERIODIC>>, offset |-> 0, len |-> MaxLen],
    [types |-> <<DIRICHLET, NEUMANN>>, offset |-> Half, len |-> 1] }

\* boundary values: all zero, or a different value on every side
ValuePatterns ==
  { [k \in Axes |-> <<0, 0>>], [k \in Axes |-> <<10 * k, 10 * k + 3>>] }

\* a different value in every cell
Code(idx) == 10 * idx[1] + idx[2]

Widths == (0 - MaxWidth)..MaxWidth

NoField == Raise("none")
NoCall == [op |-> "none", width |-> 0, axis |-> 0]
NoBC == [types |-> <<>>, values |-> <<>>]

InitPad ==
  /\ \E f \in Axes, c \in AxisConfigs, o \in OtherAxisConfigs,
        v \in ValuePatterns, a \in 0..MaxVal :
       LET cfg == [k \in Axes |-> IF k = f THEN c ELSE o]
           shape == [k \in Axes |-> cfg[k].len]
       IN  /\ bc = ConstantBoundaryConditions([k \in Axes |-> cfg[k].types], v)
           /\ u = GridArray([idx \in Indices(shape) |-> a + Code(idx)], shape,
                            [k \in Axes |-> cfg[k].offset])
  /\ pc = "init"
  /\ call = NoCall
  /\ padded = NoField
  /\ tcall = NoCall
  /\ out = NoField
  /\ arg = <<>>
  /\ cbc = NoBC
  /\ ret = "idle"

\* padded = bc.pad(u, width, axis)
Pad(width, axis) ==
  /\ pc = "init"
  /\ padded' = pad(bc, u, width, axis)
  /\ call' = [op |-> "pad", width |-> width, axis |-> axis]
  /\ pc' = "padded"
  /\ UNCHANGED <<bc, u, tcall, out, arg, cbc, ret>>

\* out = bc.trim(padded, width, axis), on the array a pad returned
Trim(width, axis) ==
  /\ pc = "padded"
  /\ padded.status = "ok"
  /\ out' = trim(bc, padded, width, axis)
  /\ tcall' = [op |-> "trim", width |-> width, axis |-> axis]
  /\ pc' = "trimmed"
  /\ UNCHANGED <<bc, u, call, padded, arg, cbc, ret>>

\* out = bc.shift(u, offset, axis)
Shift(offset, axis) ==
  /\ pc = "init"
  /\ out' = shift(bc, u, offset, axis)
  /\ call' = [op |-> "shift", width |-> offset, axis |-> axis]
  /\ pc' = "shifted"
  /\ UNCHANGED <<bc, u, padded, tcall, arg, cbc, ret>>

NextPad ==
  \/ \E w \in Widths, axis \in Axes : Pad(w, axis)
  \/ \E w \in Widths, axis \in Axes : Trim(w, axis)
  \/ \E w \in Widths, axis \in Axes : Shift(w, axis)

SpecPad == InitPad /\ [][NextPad]_vars

(* ------------- construction helpers and the functions on BCs ----------- *)
\* ((0.0, 0.0),) * ndim; a count below 1 gives the empty tuple
Repeat(x, n) == [k \in 1..n |-> x]

HomogeneousBoundaryConditions(types) ==
  ConstantBoundaryConditions(types, Repeat(<<0, 0>>, Len(types)))

periodic_boundary_conditions(ndim) ==
  HomogeneousBoundaryConditions(Repeat(<<PERIODIC, PERIODIC>>, ndim))

dirichlet_boundary_conditions(ndim) ==
  HomogeneousBoundaryConditions(Repeat(<<DIRICHLET, DIRICHLET>>, ndim))

neumann_boundary_conditions(ndim) ==
  HomogeneousBoundaryConditions(Repeat(<<NEUMANN, NEUMANN>>, ndim))

\* the optional argument bc_vals: None, or a tuple
None == [none |-> TRUE, v |-> <<>>]
Some(t) == [none |-> FALSE, v |-> t]

\* Python's `not bc_vals`: None and the empty tuple are falsy
Falsy(bc_vals) == bc_vals.none \/ bc_vals.v = <<>>

periodic_and_dirichlet_boundary_conditions(bc_vals) ==
  IF Falsy(bc_vals)
  THEN HomogeneousBoundaryConditions(
         <<<<PERIODIC, PERIODIC>>, <<DIRICHLET, DIRICHLET>>>>)
  ELSE ConstantBoundaryConditions(
         <<<<PERIODIC, PERIODIC>>, <<DIRICHLET, DIRICHLET>>>>,
         <<<<0, 0>>, bc_vals.v>>)

periodic_and_neumann_boundary_conditions(bc_vals) ==
  IF Falsy(bc_vals)
  THEN HomogeneousBoundaryConditions(
         <<<<PERIODIC, PERIODIC>>, <<NEUMANN, NEUMANN>>>>)
  ELSE ConstantBoundaryConditions(
         <<<<PERIODIC, PERIODIC>>, <<NEUMANN, NEUMANN>>>>,
         <<<<0, 0>>, bc_vals.v>>)

\* mutant: `or` written as `and`
NonPeriodicPairBoth(pair) == pair[1] # PERIODIC /\ pair[2] # PERIODIC

\* the test of the inner loop of has_all_periodic_boundary_conditions
NonPeriodicPair(pair) == pair[1] # PERIODIC \/ pair[2] # PERIODIC

RECURSIVE TypesAllPeriodic(_)
TypesAllPeriodic(types) ==
  IF types = <<>> THEN TRUE
  ELSE IF NonPeriodicPair(Head(types)) THEN FALSE
  ELSE TypesAllPeriodic(Tail(types))

\* arrays is the tuple of the fields' boundary conditions (array.bc)
RECURSIVE has_all_periodic_boundary_conditions(_)
has_all_periodic_boundary_conditions(arrays) ==
  IF arrays = <<>> THEN TRUE
  ELSE IF ~TypesAllPeriodic(Head(arrays).types) THEN FALSE
  ELSE has_all_periodic_boundary_conditions(Tail(arrays))

\* grids.consistent_boundary_conditions(*v): the boundary condition the
\* components share; fails unless all carry the same boundary-type pattern
consistent_boundary_conditions(v) ==
  IF v = <<>> \/ \E i \in 1..Len(v) : v[i].types # v[1].types
  THEN [status |-> "InconsistentBoundary", bc |-> NoBC]
  ELSE [status |-> "ok", bc |-> v[1]]

\* mutant: a Dirichlet velocity side keeps its type for the pressure
PressureTypeKeepDirichlet(velocity_bc) ==
  IF velocity_bc = PERIODIC THEN PERIODIC
  ELSE IF velocity_bc = DIRICHLET THEN DIRICHLET
  ELSE "ValueError"

\* one side: the if / elif / else of the loop body
PressureType(velocity_bc) ==
  IF velocity_bc = PERIODIC THEN PERIODIC
  ELSE IF velocity_bc = DIRICHLET THEN NEUMANN
  ELSE "ValueError"

\* the loop: the list built so far, or the exception of the first bad side
RECURSIVE PressureTypes(_)
PressureTypes(velocity_bc_types) ==
  IF velocity_bc_types = <<>> THEN [status |-> "ok", types |-> <<>>]
  ELSE LET lower == PressureType(Head(velocity_bc_types)[1])
           upper == PressureType(Head(velocity_bc_types)[2])
           rest == PressureTypes(Tail(velocity_bc_types))
       IN  IF lower = "ValueError" \/ upper = "ValueError"
           THEN [status |-> "ValueError", types |-> <<>>]
           ELSE IF rest.status # "ok" THEN rest
           ELSE [status |-> "ok", types |-> <<<<lower, upper>>>> \o rest.types]

\* v is the tuple of the components' boundary conditions
get_pressure_bc_from_velocity(v) ==
  LET c == consistent_boundary_conditions(v)
      p == PressureTypes(c.bc.types)
  IN  IF c.status # "ok" THEN [status |-> c.status, bc |-> NoBC]
      ELSE IF p.status # "ok" THEN [status |-> p.status, bc |-> NoBC]
      ELSE [status |-> "ok", bc |-> HomogeneousBoundaryConditions(p.types)]

(* ---------------- the functions on BCs as a state machine -------------- *)
\* every call is made once, from the initial state, on arguments drawn
\* from the sets below; arg keeps the arguments, cbc the boundary condition
\* returned (if any), ret the outcome
TypePairs == BCTypes \X BCTypes
ValuePairs == {<<0, 0>>, <<10, 13>>}

Tuples(S, n) == UNION {[1..m -> S] : m \in 0..n}

\* boundary conditions of fields on the 2-D grid
ArrayBCs ==
  {ConstantBoundaryConditions(t, v) :
     t \in [Axes -> TypePairs], v \in ValuePatterns}

\* a tuple of n fields: all carry the boundary condition b, except that
\* field p carries b2
ArrayTuple(n, b, b2, p) == [i \in 1..n |-> IF i = p THEN b2 ELSE b]

BcValsArgs == {None, Some(<<>>)} \cup {Some(t) : t \in ValuePairs}

InitBC ==
  /\ pc = "init"
  /\ call = NoCall
  /\ arg = <<>>
  /\ cbc = NoBC
  /\ ret = "idle"
  /\ bc = NoBC
  /\ u = NoField
  /\ padded = NoField
  /\ tcall = NoCall
  /\ out = NoField

Called(op) == [op |-> op, width |-> 0, axis |-> 0]

Construct ==
  /\ pc = "init"
  /\ \E types \in Tuples(TypePairs, MaxNdim),
        values \in Tuples(ValuePairs, MaxNdim) :
       /\ arg' = <<types, values>>
       /\ cbc' = ConstantBoundaryConditions(types, values)
  /\ call' = Called("ConstantBoundaryConditions")
  /\ ret' = "ok"
  /\ pc' = "done"
  /\ UNCHANGED <<bc, u, padded, tcall, out>>

ConstructHomogeneous ==
  /\ pc = "init"
  /\ \E types \in Tuples(TypePairs, MaxNdim) :
       /\ arg' = <<types>>
       /\ cbc' = HomogeneousBoundaryConditions(types)
  /\ call' = Called("HomogeneousBoundaryConditions")
  /\ ret' = "ok"
  /\ pc' = "done"
  /\ UNCHANGED <<bc, u, padded, tcall, out>>

BuildPeriodic ==
  /\ pc = "init"
  /\ \E ndim \in 0..MaxNdim :
       /\ arg' = <<ndim>>
       /\ cbc' = periodic_boundary_conditions(ndim)
  /\ call' = Called("periodic_boundary_conditions")
  /\ ret' = "ok"
  /\ pc' = "done"
  /\ UNCHANGED <<bc, u, padded, tcall, out>>

BuildDirichlet ==
  /\ pc = "init"
  /\ \E ndim \in 0..MaxNdim :
       /\ arg' = <<ndim>>
       /\ cbc' = dirichlet_boundary_conditions(ndim)
  /\ call' = Called("dirichlet_boundary_conditions")
  /\ ret' = "ok"
  /\ pc' = "done"
  /\ UNCHANGED <<bc, u, padded, tcall, out>>

BuildNeumann ==
  /\ pc = "init"
  /\ \E ndim \in 0..MaxNdim :
       /\ arg' = <<ndim>>
       /\ cbc' = neumann_boundary_conditions(ndim)
  /\ call' = Called("neumann_boundary_conditions")
  /\ ret' = "ok"
  /\ pc' = "done"
  /\ UNCHANGED <<bc, u, padded, tcall, out>>

BuildPeriodicAndDirichlet ==
  /\ pc = "init"
  /\ \E bc_vals \in BcValsArgs :
       /\ arg' = <<bc_vals>>
       /\ cbc' = periodic_and_dirichlet_boundary_conditions(bc_vals)
  /\ call' = Called("periodic_and_dirichlet_boundary_conditions")
  /\ ret' = "ok"
  /\ pc' = "done"
  /\ UNCHANGED <<bc, u, padded, tcall, out>>

BuildPeriodicAndNeumann ==
  /\ pc = "init"
  /\ \E bc_vals \in BcValsArgs :
       /\ arg' = <<bc_vals>>
       /\ cbc' = periodic_and_neumann_boundary_conditions(bc_vals)
  /\ call' = Called("periodic_and_neumann_boundary_conditions")
  /\ ret' = "ok"
  /\ pc' = "done"
  /\ UNCHANGED <<bc, u, padded, tcall, out>>

HasAllPeriodic ==
  /\ pc = "init"
  /\ \E n \in 0..MaxArrays, b \in ArrayBCs, b2 \in ArrayBCs, p \in 1..MaxArrays :
       LET arrays == ArrayTuple(n, b, b2, p)
       IN  /\ arg' = arrays
           /\ ret' = IF has_all_periodic_boundary_conditions(arrays)
                     THEN "True" ELSE "False"
  /\ call' = Called("has_all_periodic_boundary_conditions")
  /\ pc' = "done"
  /\ UNCHANGED <<bc, u, padded, tcall, out, cbc>>

GetPressureBC ==
  /\ pc = "init"
  /\ \E n \in 0..MaxArrays, b \in ArrayBCs, b2 \in ArrayBCs, p \in 1..MaxArrays :
       LET v == ArrayTuple(n, b, b2, p)
           r == get_pressure_bc_from_velocity(v)
       IN  /\ arg' = v
           /\ cbc' = r.bc
           /\ ret' = r.status
  /\ call' = Called("get_pressure_bc_from_velocity")
  /\ pc' = "done"
  /\ UNCHANGED <<bc, u, padded, tcall, out>>

NextBC ==
  \/ Construct
  \/ ConstructHomogeneous
  \/ BuildPeriodic
  \/ BuildDirichlet
  \/ BuildNeumann
  \/ BuildPeriodicAndDirichlet
  \/ BuildPeriodicAndNeumann
  \/ HasAllPeriodic
  \/ GetPressureBC

SpecBC == InitBC /\ [][NextBC]_vars

(* ------------------------- vocabulary of the claims -------------------- *)
Abs(x) == IF x < 0 THEN 0 - x ELSE x

\* the side a pad of this width fills: 1 = lower, 2 = upper
PaddedSide(width) == IF width < 0 THEN 1 ELSE 2
SideType(width, axis) == bc.types[axis][PaddedSide(width)]
SideValue(width, axis) == bc.values[axis][PaddedSide(width)]

\* number of ghost cells a pad of this width puts below the interior
Below(width) == IF width < 0 THEN 0 - width ELSE 0

Aligned(axis) == (u.offset[axis] % One) \in {0, Half}

\* the cases in which the spec defines a ghost value
PadDefined(width, axis) ==
  \/ SideType(width, axis) = PERIODIC
  \/ SideType(width, axis) \in {DIRICHLET, NEUMANN} /\ Aligned(axis)

\* the cells of g that a pad of f by width along axis added
GhostCells(f, g, width, axis) ==
  {idx \in DOMAIN g.data :
     \/ idx[axis] <= Below(width)
     \/ idx[axis] > Below(width) + f.shape[axis]}

\* the interior cell of f next to the padded side, on the line of idx
Adjacent(f, idx, width, axis) ==
  f.data[[idx EXCEPT ![axis] = IF width < 0 THEN 1 ELSE f.shape[axis]]]

InteriorKept(f, g, width, axis) ==
  \A idx \in DOMAIN f.data :
    g.data[[idx EXCEPT ![axis] = @ + Below(width)]] = f.data[idx]

PaddedOne == pc = "padded" /\ Abs(call.width) = 1

(* C1, as stated: for every field, axis, boundary type (PERIODIC, or
   DIRICHLET / NEUMANN at a face or center offset) and width w with
   |w| <= 1, trim(pad(u, w, axis), -w, axis) equals u, data and offset. *)
C1_TrimOppositeRestores ==
  (/\ pc = "trimmed"
   /\ Abs(call.width) <= 1
   /\ tcall.axis = call.axis
   /\ tcall.width = 0 - call.width)
  => out = u

(* C1, amended: for every field, axis, boundary type (PERIODIC, or
   DIRICHLET / NEUMANN at a face or center offset) and width w with
   |w| <= 1, pad(u, w, axis) succeeds and trim(pad(u, w, axis), w, axis),
   the trim of the same side, equals u: data and offset are restored. *)
C1_TrimSameSideRestores ==
  /\ (pc \in {"padded", "trimmed"} /\ Abs(call.width) <= 1
        /\ PadDefined(call.width, call.axis))
     => padded.status = "ok"
  /\ (/\ pc = "trimmed"
      /\ Abs(call.width) <= 1
      /\ tcall.axis = call.axis
      /\ tcall.width = call.width)
     => out = u

C1_Witness ==
  /\ pc = "trimmed"
  /\ call.width = 0 - 1
  /\ tcall = [call EXCEPT !.op = "trim"]
  /\ SideType(call.width, call.axis) = DIRICHLET
  /\ u.offset[call.axis] = Half
  /\ padded.offset # u.offset
  /\ out = u

(* C2, as stated: shift(u, 0, axis) returns u for all fields and all
   boundary conditions, also when the offset on that axis is neither face-
   nor center-aligned and the upper type is DIRICHLET or NEUMANN; it never
   raises. *)
C2_ShiftZeroAlwaysIdentity ==
  (pc = "shifted" /\ call.width = 0 /\ bc.types[call.axis][2] \in BCTypes)
    => out = u

(* C2, amended: shift(u, 0, axis) returns u (same data, same offset) when
   the upper boundary type on that axis is PERIODIC, or is DIRICHLET or
   NEUMANN and the offset on that axis is face- or center-aligned; when the
   upper type is DIRICHLET or NEUMANN and the offset is not aligned it
   raises InvalidOffset, and with an unrecognized upper type tag it raises
   InvalidBoundaryType. *)
C2_ShiftZero ==
  (pc = "shifted" /\ call.width = 0) =>
    LET t == bc.types[call.axis][2]
    IN  IF t = PERIODIC \/ (t \in {DIRICHLET, NEUMANN} /\ Aligned(call.axis))
        THEN out = u
        ELSE IF t \in {DIRICHLET, NEUMANN}
        THEN out = Raise("InvalidOffset")
        ELSE out = Raise("InvalidBoundaryType")

C2_Witness ==
  /\ pc = "shifted"
  /\ call.width = 0
  /\ bc.types[call.axis] = <<PERIODIC, NEUMANN>>
  /\ u.offset[call.axis] = Half
  /\ out = u

(* C3: a pad of one ghost cell on a DIRICHLET side at a cell-center offset
   sets the ghost cell to 2*V - (adjacent interior value), V the boundary
   value of the padded side, and leaves the interior unchanged; so ghost
   and adjacent interior value average to V. *)
C3_DirichletCenterGhost ==
  (/\ PaddedOne
   /\ SideType(call.width, call.axis) = DIRICHLET
   /\ (u.offset[call.axis] % One) = Half)
  => /\ padded.status = "ok"
     /\ GhostCells(u, padded, call.width, call.axis) # {}
     /\ \A idx \in GhostCells(u, padded, call.width, call.axis) :
          /\ padded.data[idx] =
               2 * SideValue(call.width, call.axis)
                 - Adjacent(u, idx, call.width, call.axis)
          /\ padded.data[idx] + Adjacent(u, idx, call.width, call.axis) =
               2 * SideValue(call.width, call.axis)
     /\ InteriorKept(u, padded, call.width, call.axis)

C3_Witness ==
  /\ PaddedOne
  /\ call.width = 1
  /\ SideType(call.width, call.axis) = DIRICHLET
  /\ u.offset[call.axis] = One + Half
  /\ SideValue(call.width, call.axis) # 0
  /\ padded.status = "ok"
  /\ \E idx \in GhostCells(u, padded, call.width, call.axis) :
       padded.data[idx] # SideValue(call.width, call.axis)

(* C4: a pad of one ghost cell on a NEUMANN side at a face or center offset
   sets the ghost cell to (adjacent edge interior value) - step[axis] * V,
   V the boundary value of the padded side, on the lower and on the upper
   side alike, and leaves the interior unchanged; with V = 0 the ghost cell
   is the replicated edge value. *)
C4_NeumannGhost ==
  (/\ PaddedOne
   /\ SideType(call.width, call.axis) = NEUMANN
   /\ (u.offset[call.axis] % One) \in {0, Half})
  => /\ padded.status = "ok"
     /\ GhostCells(u, padded, call.width, call.axis) # {}
     /\ \A idx \in GhostCells(u, padded, call.width, call.axis) :
          /\ padded.data[idx] =
               Adjacent(u, idx, call.width, call.axis)
                 - GridStep[call.axis] * SideValue(call.width, call.axis)
          /\ SideValue(call.width, call.axis) = 0
               => padded.data[idx] = Adjacent(u, idx, call.width, call.axis)
     /\ InteriorKept(u, padded, call.width, call.axis)

C4_Witness ==
  /\ PaddedOne
  /\ call.width = 0 - 1
  /\ call.axis = 2
  /\ SideType(call.width, call.axis) = NEUMANN
  /\ u.offset[call.axis] = 0
  /\ SideValue(call.width, call.axis) # 0
  /\ padded.status = "ok"

(* C5: a pad on a DIRICHLET side at a face offset sets every ghost cell to
   the boundary value of the padded side, whatever the interior data, and
   leaves the interior unchanged. *)
C5_DirichletFaceGhost ==
  (/\ pc = "padded"
   /\ SideType(call.width, call.axis) = DIRICHLET
   /\ (u.offset[call.axis] % One) = 0)
  => /\ padded.status = "ok"
     /\ \A idx \in GhostCells(u, padded, call.width, call.axis) :
          padded.data[idx] = SideValue(call.width, call.axis)
     /\ InteriorKept(u, padded, call.width, call.axis)

C5_Witness ==
  /\ pc = "padded"
  /\ call.width = 1
  /\ SideType(call.width, call.axis) = DIRICHLET
  /\ u.offset[call.axis] = 0
  /\ SideValue(call.width, call.axis) # 0
  /\ padded.status = "ok"
  /\ GhostCells(u, padded, call.width, call.axis) # {}

(* C6: pad fails with InvalidOffset, returning no data, whenever the type of
   the padded side is DIRICHLET or NEUMANN and offset[axis] mod 1 is neither
   0 nor 0.5; it fails with InvalidBoundaryType when the type tag of the
   padded side is none of PERIODIC, DIRICHLET, NEUMANN; on a PERIODIC side
   it succeeds for any offset. *)
C6_PadErrors ==
  pc = "padded" =>
    LET t == SideType(call.width, call.axis)
    IN  /\ (t \in {DIRICHLET, NEUMANN} /\ ~Aligned(call.axis))
             => (padded.status = "InvalidOffset" /\ padded.data = <<>>)
        /\ t \notin BCTypes
             => (padded.status = "InvalidBoundaryType" /\ padded.data = <<>>)
        /\ t = PERIODIC => padded.status = "ok"

C6_Witness ==
  /\ pc = "padded"
  /\ SideType(call.width, call.axis) = DIRICHLET
  /\ u.offset[call.axis] = 1
  /\ padded.status = "InvalidOffset"

(* C8: pad with width < 0 lengthens the axis by |width| and decreases
   offset[axis] by |width|, pad with width > 0 lengthens it by width and
   leaves the offset unchanged; trim with width < 0 shortens the axis by
   |width| and increases offset[axis] by |width|, trim with width > 0
   shortens it by width and leaves the offset unchanged (a trim of at most
   the cells the axis has); hence shift(u, k, axis) has the shape of u and
   offset[axis] = u.offset[axis] + k; the other axes keep their lengths and
   offsets. *)
C8_Bookkeeping ==
  /\ (pc \in {"padded", "trimmed"} /\ padded.status = "ok") =>
       /\ padded.shape =
            [u.shape EXCEPT ![call.axis] = @ + Abs(call.width)]
       /\ DOMAIN padded.data = Indices(padded.shape)
       /\ padded.offset =
            [u.offset EXCEPT ![call.axis] =
               IF call.width < 0 THEN @ - One * Abs(call.width) ELSE @]
  /\ (pc = "trimmed" /\ Abs(tcall.width) <= padded.shape[tcall.axis]) =>
       /\ out.status = "ok"
       /\ out.shape =
            [padded.shape EXCEPT ![tcall.axis] = @ - Abs(tcall.width)]
       /\ DOMAIN out.data = Indices(out.shape)
       /\ out.offset =
            [padded.offset EXCEPT ![tcall.axis] =
               IF tcall.width < 0 THEN @ + One * Abs(tcall.width) ELSE @]
  /\ (pc = "shifted" /\ PadDefined(call.width, call.axis)) =>
       /\ out.status = "ok"
       /\ out.shape = u.shape
       /\ DOMAIN out.data = DOMAIN u.data
       /\ out.offset = [u.offset EXCEPT ![call.axis] = @ + One * call.width]

C8_Witness ==
  /\ pc = "shifted"
  /\ call.width = 0 - 1
  /\ call.axis = 1
  /\ SideType(call.width, call.axis) = NEUMANN
  /\ out.status = "ok"
  /\ out.offset[1] = u.offset[1] - One
  /\ out.offset[2] = u.offset[2]
  /\ u.offset[2] # 0

\* every side of every axis of every boundary condition of the tuple
Sides(bcs) ==
  {<<i, k, sd>> \in (1..Len(bcs)) \X (1..MaxNdim + 1) \X {1, 2} :
     k <= Len(bcs[i].types)}

SideTag(bcs, x) == bcs[x[1]].types[x[2]][x[3]]

(* C7: get_pressure_bc_from_velocity maps the velocity boundary types per
   axis and per side independently, PERIODIC to PERIODIC and DIRICHLET to
   NEUMANN, and fails if any side of any axis has any other type; when it
   succeeds the result has as many axes as the velocity boundary condition
   and all its boundary values are 0, whatever the velocity boundary values
   were.  (It succeeds when the components agree in their types and every
   side is PERIODIC or DIRICHLET.) *)
C7_PressureBC ==
  call.op = "get_pressure_bc_from_velocity" =>
    /\ (\E x \in Sides(arg) : SideTag(arg, x) \notin {PERIODIC, DIRICHLET})
         => (ret # "ok" /\ cbc = NoBC)
    /\ (/\ arg # <<>>
        /\ \A i \in 1..Len(arg) : arg[i].types = arg[1].types
        /\ \A x \in Sides(arg) : SideTag(arg, x) \in {PERIODIC, DIRICHLET})
         => ret = "ok"
    /\ ret = "ok" =>
         /\ Len(cbc.types) = Len(arg[1].types)
         /\ Len(cbc.values) = Len(arg[1].types)
         /\ \A k \in 1..Len(cbc.types) :
              /\ \A sd \in {1, 2} :
                   \/ /\ arg[1].types[k][sd] = PERIODIC
                      /\ cbc.types[k][sd] = PERIODIC
                   \/ /\ arg[1].types[k][sd] = DIRICHLET
                      /\ cbc.types[k][sd] = NEUMANN
              /\ cbc.values[k] = <<0, 0>>

C7_Witness ==
  /\ call.op = "get_pressure_bc_from_velocity"
  /\ Len(arg) = 2
  /\ arg[1].types = <<<<PERIODIC, PERIODIC>>, <<DIRICHLET, DIRICHLET>>>>
  /\ arg[1].values # arg[2].values
  /\ ret = "ok"
  /\ cbc.types = <<<<PERIODIC, PERIODIC>>, <<NEUMANN, NEUMANN>>>>
  /\ cbc.values = <<<<0, 0>>, <<0, 0>>>>

\* the constructors and builders
CtorOps ==
  {"ConstantBoundaryConditions", "HomogeneousBoundaryConditions",
   "periodic_boundary_conditions", "dirichlet_boundary_conditions",
   "neumann_boundary_conditions",
   "periodic_and_dirichlet_boundary_conditions",
   "periodic_and_neumann_boundary_conditions"}

MixedOps ==
  {"periodic_and_dirichlet_boundary_conditions",
   "periodic_and_neumann_boundary_conditions"}

HomogeneousOps ==
  {"HomogeneousBoundaryConditions", "periodic_boundary_conditions",
   "dirichlet_boundary_conditions", "neumann_boundary_conditions"}

Constructed ==
  \/ call.op \in CtorOps
  \/ call.op = "get_pressure_bc_from_velocity" /\ ret = "ok"

(* C9: every boundary condition that can be constructed, directly through
   ConstantBoundaryConditions(types, values), through
   HomogeneousBoundaryConditions(types), through the named builders with or
   without bc_vals, or through the pressure derivation, has
   len(types) = len(values) = ndim; the homogeneous builder sets every
   value pair to (0, 0) and the mixed builders force the values of axis 0
   to (0, 0). *)
C9_LengthsAgree ==
  /\ Constructed => Len(cbc.types) = Len(cbc.values)
  /\ call.op \in HomogeneousOps =>
       \A k \in 1..Len(cbc.values) : cbc.values[k] = <<0, 0>>
  /\ call.op \in MixedOps => cbc.values[1] = <<0, 0>>

\* what holds of the code: every construction but the direct one
C9_BuildersAgree ==
  /\ (Constructed /\ call.op # "ConstantBoundaryConditions")
       => Len(cbc.types) = Len(cbc.values)
  /\ call.op \in HomogeneousOps =>
       \A k \in 1..Len(cbc.values) : cbc.values[k] = <<0, 0>>
  /\ call.op \in MixedOps => cbc.values[1] = <<0, 0>>

(* C10: has_all_periodic_boundary_conditions returns true if and only if,
   for every given field, every axis has PERIODIC as its lower and as its
   upper boundary type; it returns true for no fields at all and false as
   soon as one side of one axis of one field is not periodic. *)
C10_AllPeriodic ==
  call.op = "has_all_periodic_boundary_conditions" =>
    /\ ret \in {"True", "False"}
    /\ ret = "True" <=> \A x \in Sides(arg) : SideTag(arg, x) = PERIODIC
    /\ arg = <<>> => ret = "True"

C10_Witness ==
  /\ call.op = "has_all_periodic_boundary_conditions"
  /\ Len(arg) = 2
  /\ arg[1].types = <<<<PERIODIC, PERIODIC>>, <<PERIODIC, PERIODIC>>>>
  /\ arg[2].types = <<<<PERIODIC, PERIODIC>>, <<PERIODIC, DIRICHLET>>>>
  /\ ret = "False"

====
